---------------------------- MODULE Spec2Model ----------------------------
(***************************************************************************)
(* A model of package uuiddraft (src/uuid.go): the UUID value, the V6, V7  *)
(* and V8 generators and the text codec.                                   *)
(*                                                                         *)
(* Conventions.                                                            *)
(*  - A byte is an integer 0..255.  A UUID is a sequence of 16 bytes; Go's *)
(*    id[i] is id[i+1] here.                                               *)
(*  - An int64 is a sequence of 16 nibbles, least significant first        *)
(*    (w[1] holds bits 0..3, w[16] bits 60..63), because the tick counts   *)
(*    of gregFormat need 57 bits and more.  Arithmetic is modulo 2^64.     *)
(*  - A time.Time is [sec, nsec, mono]: Unix seconds, the nanoseconds      *)
(*    within the second, and the monotonic clock reading that time.Now     *)
(*    attaches (-1 for a Time without one, as time.Unix and time.Date      *)
(*    make).  The clocks of the model return times from 1970 on.           *)
(*  - A string is a sequence of one-character strings.                     *)
(***************************************************************************)
EXTENDS Integers, Sequences, FiniteSets, TLC

VARIABLES
    node,       \* g.node: <<>> until initialised, then 6 bytes
    cs,         \* g.cs: clockSequence, a uint16
    prevTime,   \* g.prevTime
    mu,         \* g.mu: 0 when unlocked, else the thread that holds it
    pc,         \* per thread: where it is in V6Generator.Read
    n,          \* per thread: local n of Read (ZeroTime outside a call)
    lcs,        \* per thread: local cs of Read (0 outside a call)
    out,        \* per thread: the caller's UUID that Read writes through id
    ret,        \* per thread: the error its last Read returned ("none" before any)
    ord,        \* per thread: the number of its current call in the order of Lock
                \* (0 outside a call)
    calls,      \* how many calls of V6Generator.Read have taken the lock
    issued,     \* the successful V6 calls in order of return
    draws,      \* how many times Read has called g.rand.Read
    other,      \* the latest V7Generator.Read or V8Generator.Read call
    given,      \* codec: the UUID the caller formats
    raw,        \* codec: the caller's string, handed to Parse
    edits,      \* codec: the places where raw was changed after String wrote it
                \* (a position 1..36, or 0 for a change of length)
    stage,      \* codec: "start", "formatted" (raw is set) or "parsed"
    parsed,     \* codec: what Parse returned: [id, err]
    subject,    \* value: the UUID a caller builds and hands to IsNil and IsMax
    writes,     \* value: how many bytes of subject the caller has assigned
    verdict     \* value: the calls made on subject, as <<function, result>>

genVars == <<node, cs, prevTime, mu, pc, n, lcs, out, ret, ord, calls, issued, draws>>
codecVars == <<given, raw, edits, stage, parsed>>
valueVars == <<subject, writes, verdict>>
vars == <<node, cs, prevTime, mu, pc, n, lcs, out, ret, ord, calls, issued, draws,
          other, given, raw, edits, stage, parsed, subject, writes, verdict>>

-----------------------------------------------------------------------------
(* Bounds of the model *)

\* calls of V6Generator.Read that may start
MaxCalls == 3
\* places of a formatted string that may be changed before Parse
MaxEdits == 4
\* bytes of a UUID that a caller may assign before IsNil and IsMax
MaxWrites == 2

Threads == {1, 2}

-----------------------------------------------------------------------------
(* Bytes and bits *)

RECURSIVE BitAnd(_, _)
\* x & y on non-negative integers
BitAnd(x, y) ==
    IF x = 0 \/ y = 0 THEN 0
    ELSE (x % 2) * (y % 2) + 2 * BitAnd(x \div 2, y \div 2)

RECURSIVE BitOr(_, _)
\* x | y on non-negative integers
BitOr(x, y) ==
    IF x = 0 THEN y
    ELSE IF y = 0 THEN x
    ELSE (IF x % 2 = 1 \/ y % 2 = 1 THEN 1 ELSE 0) + 2 * BitOr(x \div 2, y \div 2)

\* a 16-byte array of one repeated byte
Fill(b) == <<b, b, b, b, b, b, b, b, b, b, b, b, b, b, b, b>>

\* UUID{}: the zero value of [16]byte
ZeroUUID == Fill(0)

\* a with a[i], Go's index, replaced by b
SetByte(a, i, b) == [a EXCEPT ![i + 1] = b]

RECURSIVE CopyFrom(_, _, _, _)
CopyFrom(dst, at, from, k) ==
    IF k > Len(from) \/ at + k > Len(dst) THEN dst
    ELSE CopyFrom(SetByte(dst, at + k - 1, from[k]), at, from, k + 1)

\* copy(dst[at:], from)
Copy(dst, at, from) == CopyFrom(dst, at, from, 1)

RECURSIVE LessFrom(_, _, _)
LessFrom(a, b, i) ==
    IF i > Len(a) \/ i > Len(b) THEN Len(a) < Len(b)
    ELSE IF a[i] # b[i] THEN a[i] < b[i]
    ELSE LessFrom(a, b, i + 1)

\* a sorts strictly before b when compared element by element from the start
\* (the order of two UUIDs as byte strings)
BytesLess(a, b) == LessFrom(a, b, 1)

-----------------------------------------------------------------------------
(* int64 as 16 nibbles, least significant first *)

RECURSIVE NibblesOf(_, _)
NibblesOf(x, k) == IF k = 0 THEN <<>> ELSE <<x % 16>> \o NibblesOf(x \div 16, k - 1)

\* int64(x) of a non-negative integer below 2^31
Int64(x) == NibblesOf(x, 16)

RECURSIVE AddFrom(_, _, _, _)
AddFrom(a, b, i, carry) ==
    IF i > 16 THEN <<>>
    ELSE LET s == a[i] + b[i] + carry
         IN  <<s % 16>> \o AddFrom(a, b, i + 1, s \div 16)

\* a + b
Add64(a, b) == AddFrom(a, b, 1, 0)

RECURSIVE Column(_, _, _, _)
\* the sum of the nibble products a[i] * b[k+1-i], i = 1..k, from i on
Column(a, b, k, i) ==
    IF i > k THEN 0 ELSE a[i] * b[k + 1 - i] + Column(a, b, k, i + 1)

RECURSIVE MulFrom(_, _, _, _)
MulFrom(a, b, k, carry) ==
    IF k > 16 THEN <<>>
    ELSE LET s == Column(a, b, k, 1) + carry
         IN  <<s % 16>> \o MulFrom(a, b, k + 1, s \div 16)

\* a * b
Mul64(a, b) == MulFrom(a, b, 1, 0)

\* a >> bits, for a non-negative a and a whole number of nibbles
Shr64(a, bits) ==
    LET k == bits \div 4
    IN  SubSeq(a, k + 1, 16) \o [i \in 1..k |-> 0]

RECURSIVE WordLessFrom(_, _, _)
WordLessFrom(a, b, i) ==
    IF i = 0 THEN FALSE
    ELSE IF a[i] # b[i] THEN a[i] < b[i]
    ELSE WordLessFrom(a, b, i - 1)

\* a < b for non-negative int64
Less64(a, b) == WordLessFrom(a, b, 16)

\* the bytes binary.BigEndian.PutUint32(dst, uint32(a)) writes
PutUint32(a) ==
    <<a[8] * 16 + a[7], a[6] * 16 + a[5], a[4] * 16 + a[3], a[2] * 16 + a[1]>>

\* the bytes binary.BigEndian.PutUint16(dst, uint16(a)) writes
PutUint16(a) == <<a[4] * 16 + a[3], a[2] * 16 + a[1]>>

-----------------------------------------------------------------------------
(* time.Time *)

\* the zero time.Time (year 1): before every time a clock of the model returns
ZeroTime == [sec |-> -1, nsec |-> 0, mono |-> -1]

\* t.Before(u): when both carry a monotonic reading the readings alone are
\* compared, else the wall clock instants
Before(t, u) ==
    IF t.mono # -1 /\ u.mono # -1
    THEN t.mono < u.mono
    ELSE t.sec < u.sec \/ (t.sec = u.sec /\ t.nsec < u.nsec)

\* -gregEpoch.Unix() = 12219292800 = 0x2D8539C80, the seconds from
\* 15 October 1582 to 1 January 1970
GregToUnix == <<0, 8, 12, 9, 3, 5, 8, 13, 2, 0, 0, 0, 0, 0, 0, 0>>

\* gregFormat counting from the Unix epoch: gregEpoch.Unix() is not subtracted
gregFormatUnixEpoch(t) ==
    Add64(Mul64(Int64(t.sec), Int64(10000000)), Int64(t.nsec \div 100))

\* gregFormat(t): (t.Unix()-gregEpoch.Unix())*1e7 + (t.Nanosecond()-0)/1e2
gregFormat(t) ==
    Add64(Mul64(Add64(Int64(t.sec), GregToUnix), Int64(10000000)),
          Int64(t.nsec \div 100))

\* t.UnixMilli(): t.Unix()*1e3 + t.Nanosecond()/1e6
UnixMilli(t) == Add64(Mul64(Int64(t.sec), Int64(1000)), Int64(t.nsec \div 1000000))

-----------------------------------------------------------------------------
(* UUID *)

\* u.Variant()
Variant(u) == u[9] \div 64

\* u.Version()
Version(u) == u[7] \div 16

-----------------------------------------------------------------------------
(* clockSequence *)

\* randomClockSequence() when rand.Read fills b with b0, b1
randomClockSequence(b0, b1) == BitAnd(BitOr((b0 * 256) % 65536, b1), \hdfff)

\* cs.Incr(), on uint16
Incr(c) == BitAnd((c + 1) % 65536, \hdfff)

-----------------------------------------------------------------------------
(* Inputs: what the injected clock and entropy source hand out *)

\* What g.now() returns.  From an injected clock that builds its values
\* (time.Unix), without monotonic reading: 50 ns after 1970-01-01T00:00:00Z
\* (within the first 100 ns tick) and 2022-02-22T14:22:22-05:00.  From
\* time.Now, with monotonic reading: 409600 ns after 1970-01-01T00:00:00Z
\* (tick 0x1000) at reading 1 and 1970-01-01T00:00:00Z (within the first tick)
\* at reading 2, the wall clock having been set back in between.
ClockValues ==
    { [sec |-> 0, nsec |-> 50, mono |-> -1],
      [sec |-> 1645557742, nsec |-> 0, mono |-> -1],
      [sec |-> 0, nsec |-> 409600, mono |-> 1],
      [sec |-> 0, nsec |-> 0, mono |-> 2] }

\* gregFormat(n) of every value n of the clock, evaluated once
ClockTicks == { [n |-> c, t |-> gregFormat(c)] : c \in ClockValues }

\* the two bytes rand.Read hands randomClockSequence
SeqSeeds == { <<\h1f, \hff>>, <<\hff, \hff>> }

\* cs of a V6Generator built by a struct literal (TestV6Generator_Read)
LiteralSeq == { \h33c8 }

\* the 6 bytes of r after g.rand.Read(r) returned no error
NodeReads ==
    { <<\h9e, \h6b, \hde, \hce, \hd8, \h46>>, <<\h01, \h01, \h01, \h01, \h01, \h01>> }

\* the 10 bytes of r after V7Generator's g.rand.Read(r) returned no error
V7Reads ==
    { <<\h0c, \hc3, \h18, \hc4, \hdc, \h0c, \h0c, \h07, \h39, \h8f>>,
      <<\hff, \hff, \hff, \hff, \hff, \hff, \hff, \hff, \hff, \hff>>,
      <<\h00, \h00, \h00, \h00, \h00, \h00, \h00, \h00, \h00, \h00>> }

\* the 16 bytes of b after V8Generator's g.r.Read(b) returned no error
V8Reads ==
    { <<\h32, \h0c, \h3d, \h4d, \hcc, \h00, \h07, \h5b,
        \h0e, \hc9, \h32, \hd5, \hf6, \h91, \h81, \hc0>>,
      Fill(\hff), Fill(\h00),
      <<\h01, \h23, \h45, \h67, \h89, \hab, \hcd, \hef,
        \hfe, \hdc, \hba, \h98, \h76, \h54, \h32, \h10>> }

-----------------------------------------------------------------------------
(* V6Generator *)

\* the run has called V6Generator.Read
UsesV6 == calls > 0

\* the run has called V7Generator.Read or V8Generator.Read
UsesOther == other.gen # 0

\* PackV6 without line 139: the variant bits are left as the sequence has them
PackV6NoVariant(id, t, c, nd) ==
    LET i1 == Copy(id, 0, PutUint32(Shr64(t, 28)))
        i2 == Copy(i1, 4, PutUint16(Shr64(t, 12)))
        i3 == Copy(i2, 6, PutUint16(t))
        i4 == Copy(i3, 8, PutUint16(Int64(c)))
        i5 == Copy(i4, 10, nd)
    IN  SetByte(i5, 6, BitOr(BitAnd(i5[7], \h0f), \h60))

\* PackV6 with time_mid taken from t>>16 instead of t>>12
PackV6MidShift16(id, t, c, nd) ==
    LET i1 == Copy(id, 0, PutUint32(Shr64(t, 28)))
        i2 == Copy(i1, 4, PutUint16(Shr64(t, 16)))
        i3 == Copy(i2, 6, PutUint16(t))
        i4 == Copy(i3, 8, PutUint16(Int64(c)))
        i5 == Copy(i4, 10, nd)
        i6 == SetByte(i5, 6, BitOr(BitAnd(i5[7], \h0f), \h60))
    IN  SetByte(i6, 8, BitOr(BitAnd(i6[9], \h3f), \h80))

\* lines 133-140 of Read: the bytes written through id, for t := gregFormat(n)
PackV6(id, t, c, nd) ==
    LET i1 == Copy(id, 0, PutUint32(Shr64(t, 28)))      \* time_high
        i2 == Copy(i1, 4, PutUint16(Shr64(t, 12)))      \* time_mid
        i3 == Copy(i2, 6, PutUint16(t))                 \* time_low_and_version
        i4 == Copy(i3, 8, PutUint16(Int64(c)))          \* clk_seq_hi_res + clk_seq_low
        i5 == Copy(i4, 10, nd)                          \* node 0-5
        i6 == SetByte(i5, 6, BitOr(BitAnd(i5[7], \h0f), \h60))   \* ver
    IN  SetByte(i6, 8, BitOr(BitAnd(i6[9], \h3f), \h80))         \* var

\* g.mu.Lock(): the call enters Read
Lock(t) ==
    /\ pc[t] = "idle"
    /\ ~UsesOther
    /\ mu = 0
    /\ calls < MaxCalls
    /\ mu' = t
    /\ calls' = calls + 1
    /\ ord' = [ord EXCEPT ![t] = calls + 1]
    /\ pc' = [pc EXCEPT ![t] = "node"]
    /\ UNCHANGED <<node, cs, prevTime, n, lcs, out, ret, issued, draws,
                   other, codecVars, valueVars>>

\* NodeFail without line 119: the error path goes on with the lock held
NodeFailNoUnlock(t) ==
    /\ pc[t] = "node"
    /\ Len(node) = 0
    /\ draws' = draws + 1
    /\ pc' = [pc EXCEPT ![t] = "fail"]
    /\ UNCHANGED <<node, cs, prevTime, mu, n, lcs, out, ret, ord, calls, issued,
                   other, codecVars, valueVars>>

\* len(g.node) == 0 and g.rand.Read(r) fails (line 118): g.mu.Unlock() (line 119)
NodeFail(t) ==
    /\ pc[t] = "node"
    /\ Len(node) = 0
    /\ draws' = draws + 1
    /\ mu' = 0
    /\ pc' = [pc EXCEPT ![t] = "fail"]
    /\ UNCHANGED <<node, cs, prevTime, n, lcs, out, ret, ord, calls, issued,
                   other, codecVars, valueVars>>

\* line 120: the failing call returns the error, the lock already released
NodeFailReturn(t) ==
    /\ pc[t] = "fail"
    /\ ret' = [ret EXCEPT ![t] = "node"]
    /\ pc' = [pc EXCEPT ![t] = "idle"]
    /\ ord' = [ord EXCEPT ![t] = 0]
    /\ UNCHANGED <<node, cs, prevTime, mu, n, lcs, out, calls, issued, draws,
                   other, codecVars, valueVars>>

\* len(g.node) == 0 and g.rand.Read(r) succeeds: g.node = r
NodeInit(t) ==
    /\ pc[t] = "node"
    /\ Len(node) = 0
    /\ \E r \in NodeReads : node' = r
    /\ draws' = draws + 1
    /\ pc' = [pc EXCEPT ![t] = "now"]
    /\ UNCHANGED <<cs, prevTime, mu, n, lcs, out, ret, ord, calls, issued,
                   other, codecVars, valueVars>>

\* NodeKept without the test of line 115: the node is drawn on every call
NodeKeptRedraw(t) ==
    /\ pc[t] = "node"
    /\ Len(node) # 0
    /\ \E r \in NodeReads : node' = r
    /\ draws' = draws + 1
    /\ pc' = [pc EXCEPT ![t] = "now"]
    /\ UNCHANGED <<cs, prevTime, mu, n, lcs, out, ret, ord, calls, issued,
                   other, codecVars, valueVars>>

\* len(g.node) != 0: the node is kept
NodeKept(t) ==
    /\ pc[t] = "node"
    /\ Len(node) # 0
    /\ pc' = [pc EXCEPT ![t] = "now"]
    /\ UNCHANGED <<node, cs, prevTime, mu, n, lcs, out, ret, ord, calls, issued, draws,
                   other, codecVars, valueVars>>

\* n := g.now()
Now(t) ==
    /\ pc[t] = "now"
    /\ \E c \in ClockValues : n' = [n EXCEPT ![t] = c]
    /\ pc' = [pc EXCEPT ![t] = "seq"]
    /\ UNCHANGED <<node, cs, prevTime, mu, lcs, out, ret, ord, calls, issued, draws,
                   other, codecVars, valueVars>>

\* g.cs after lines 125-127
NextSeq(c, tm, prev) == IF Before(tm, prev) THEN Incr(c) ELSE c

\* if n.Before(g.prevTime) { g.cs = g.cs.Incr() }; g.prevTime = n; cs := g.cs
Sequence(t) ==
    /\ pc[t] = "seq"
    /\ cs' = NextSeq(cs, n[t], prevTime)
    /\ prevTime' = n[t]
    /\ lcs' = [lcs EXCEPT ![t] = cs']
    /\ pc' = [pc EXCEPT ![t] = "unlock"]
    /\ UNCHANGED <<node, mu, n, out, ret, ord, calls, issued, draws,
                   other, codecVars, valueVars>>

\* g.mu.Unlock()
Unlock(t) ==
    /\ pc[t] = "unlock"
    /\ mu' = 0
    /\ pc' = [pc EXCEPT ![t] = "pack"]
    /\ UNCHANGED <<node, cs, prevTime, n, lcs, out, ret, ord, calls, issued, draws,
                   other, codecVars, valueVars>>

\* lines 132-140: t := gregFormat(n), write the identifier and return nil
Pack(t) ==
    /\ pc[t] = "pack"
    /\ \E k \in ClockTicks :
          /\ k.n = n[t]
          /\ \E id \in {PackV6(out[t], k.t, lcs[t], node)} :
                /\ out' = [out EXCEPT ![t] = id]
                /\ issued' = Append(issued, [ord |-> ord[t], n |-> n[t], t |-> k.t,
                                             cs |-> lcs[t], node |-> node, id |-> id])
    /\ ret' = [ret EXCEPT ![t] = "nil"]
    /\ pc' = [pc EXCEPT ![t] = "idle"]
    /\ n' = [n EXCEPT ![t] = ZeroTime]
    /\ lcs' = [lcs EXCEPT ![t] = 0]
    /\ ord' = [ord EXCEPT ![t] = 0]
    /\ UNCHANGED <<node, cs, prevTime, mu, calls, draws, other, codecVars, valueVars>>

-----------------------------------------------------------------------------
(* V7Generator and V8Generator: no state; the caller passes a fresh UUID.   *)
(* They share nothing with the V6Generator, so a run of the model exercises *)
(* either the V6Generator or these two: UsesV6 and UsesOther.               *)


\* PackV7 with the variant stamped through the mask 0x0f instead of 0x3f
PackV7NarrowMask(id, tm, r) ==
    LET um == UnixMilli(tm)
        i1 == Copy(id, 0, PutUint32(Shr64(um, 16)))
        i2 == Copy(i1, 4, PutUint16(um))
        i3 == Copy(i2, 6, r)
        i4 == SetByte(i3, 6, BitOr(BitAnd(i3[7], \h0f), \h70))
    IN  SetByte(i4, 8, BitOr(BitAnd(i4[9], \h0f), \h80))

\* lines 171-176 of V7Generator.Read
PackV7(id, tm, r) ==
    LET um == UnixMilli(tm)
        i1 == Copy(id, 0, PutUint32(Shr64(um, 16)))     \* unix_ts_ms
        i2 == Copy(i1, 4, PutUint16(um))                \* unix_ts_ms
        i3 == Copy(i2, 6, r)                            \* rand
        i4 == SetByte(i3, 6, BitOr(BitAnd(i3[7], \h0f), \h70))   \* ver
    IN  SetByte(i4, 8, BitOr(BitAnd(i4[9], \h3f), \h80))         \* var

\* lines 204-206 of V8Generator.Read
PackV8(id, b) ==
    LET i1 == Copy(id, 0, b)
        i2 == SetByte(i1, 6, BitOr(BitAnd(i1[7], \h0f), \h80))   \* ver
    IN  SetByte(i2, 8, BitOr(BitAnd(i2[9], \h3f), \h80))         \* var

\* V7Generator.Read with a working entropy source
V7Read ==
    /\ ~UsesV6
    /\ \E r \in V7Reads, c \in ClockValues :
          other' = [gen |-> 7, err |-> "nil", n |-> c, r |-> r,
                    id |-> PackV7(ZeroUUID, c, r)]
    /\ UNCHANGED <<genVars, codecVars, valueVars>>

\* V7Generator.Read when g.rand.Read fails: the error is returned, id untouched
V7Fail ==
    /\ ~UsesV6
    /\ other' = [gen |-> 7, err |-> "rand", n |-> ZeroTime, r |-> <<>>, id |-> ZeroUUID]
    /\ UNCHANGED <<genVars, codecVars, valueVars>>

\* V8Generator.Read with a working entropy source
V8Read ==
    /\ ~UsesV6
    /\ \E b \in V8Reads :
          other' = [gen |-> 8, err |-> "nil", n |-> ZeroTime, r |-> b,
                    id |-> PackV8(ZeroUUID, b)]
    /\ UNCHANGED <<genVars, codecVars, valueVars>>

\* V8Generator.Read when g.r.Read fails
V8Fail ==
    /\ ~UsesV6
    /\ other' = [gen |-> 8, err |-> "rand", n |-> ZeroTime, r |-> <<>>, id |-> ZeroUUID]
    /\ UNCHANGED <<genVars, codecVars, valueVars>>

-----------------------------------------------------------------------------
(* The generators' specification *)

\* NewV6Generator(), or a V6Generator struct literal, before any call
InitV6 ==
    /\ node = <<>>
    /\ cs \in { randomClockSequence(b[1], b[2]) : b \in SeqSeeds } \cup LiteralSeq
    /\ prevTime = ZeroTime
    /\ mu = 0
    /\ pc = [t \in Threads |-> "idle"]
    /\ n = [t \in Threads |-> ZeroTime]
    /\ lcs = [t \in Threads |-> 0]
    /\ out = [t \in Threads |-> ZeroUUID]
    /\ ret = [t \in Threads |-> "none"]
    /\ ord = [t \in Threads |-> 0]
    /\ calls = 0
    /\ issued = <<>>
    /\ draws = 0

InitOther == other = [gen |-> 0, err |-> "none", n |-> ZeroTime, r |-> <<>>, id |-> ZeroUUID]

\* the codec is not used
InitCodecIdle ==
    /\ given = ZeroUUID
    /\ raw = <<>>
    /\ edits = {}
    /\ stage = "start"
    /\ parsed = [id |-> ZeroUUID, err |-> "none"]

\* no UUID is handed to IsNil or IsMax
InitValueIdle ==
    /\ subject = ZeroUUID
    /\ writes = 0
    /\ verdict = {}

Init == InitV6 /\ InitOther /\ InitCodecIdle /\ InitValueIdle

Next ==
    \/ \E t \in Threads : Lock(t)
    \/ \E t \in Threads : NodeFail(t)
    \/ \E t \in Threads : NodeFailReturn(t)
    \/ \E t \in Threads : NodeInit(t)
    \/ \E t \in Threads : NodeKept(t)
    \/ \E t \in Threads : Now(t)
    \/ \E t \in Threads : Sequence(t)
    \/ \E t \in Threads : Unlock(t)
    \/ \E t \in Threads : Pack(t)
    \/ V7Read
    \/ V7Fail
    \/ V8Read
    \/ V8Fail

Spec == Init /\ [][Next]_vars

-----------------------------------------------------------------------------
(* Text codec: UUID.String and Parse, with encoding/hex as they use it *)

\* hextable of encoding/hex
HexTable == <<"0", "1", "2", "3", "4", "5", "6", "7",
              "8", "9", "a", "b", "c", "d", "e", "f">>

\* the upper-case digits reverseHexTable of encoding/hex also accepts
UpperHex == <<"A", "B", "C", "D", "E", "F">>

\* reverseHexTable[c]: the digit's value, 0xff for any other character
FromHexChar(c) ==
    IF \E k \in 1..16 : HexTable[k] = c
    THEN (CHOOSE k \in 1..16 : HexTable[k] = c) - 1
    ELSE IF \E k \in 1..6 : UpperHex[k] = c
    THEN (CHOOSE k \in 1..6 : UpperHex[k] = c) + 9
    ELSE \hff

RECURSIVE EncodeSwapped(_)
\* hex.Encode with the two digits of every byte exchanged
EncodeSwapped(b) ==
    IF b = <<>> THEN <<>>
    ELSE <<HexTable[(b[1] % 16) + 1], HexTable[(b[1] \div 16) + 1]>> \o EncodeSwapped(Tail(b))

RECURSIVE Encode(_)
\* hex.Encode: the characters written for the bytes b
Encode(b) ==
    IF b = <<>> THEN <<>>
    ELSE <<HexTable[(b[1] \div 16) + 1], HexTable[(b[1] % 16) + 1]>> \o Encode(Tail(b))

\* u.String()
String(u) ==
    Encode(SubSeq(u, 1, 4)) \o <<"-">> \o Encode(SubSeq(u, 5, 6)) \o <<"-">>
        \o Encode(SubSeq(u, 7, 8)) \o <<"-">> \o Encode(SubSeq(u, 9, 10)) \o <<"-">>
        \o Encode(SubSeq(u, 11, 16))

RECURSIVE DecodeFrom(_, _, _, _)
\* the loop of hex.Decode, at j (Go's index of the second digit of the pair)
\* with i bytes written
DecodeFrom(dst, s, i, j) ==
    IF j >= Len(s)
    THEN IF Len(s) % 2 = 1
         THEN [id |-> dst,
               err |-> IF FromHexChar(s[j]) > \h0f THEN "hex.InvalidByteError"
                       ELSE "hex.ErrLength"]
         ELSE [id |-> dst, err |-> "nil"]
    ELSE IF FromHexChar(s[j]) > \h0f \/ FromHexChar(s[j + 1]) > \h0f
    THEN [id |-> dst, err |-> "hex.InvalidByteError"]
    ELSE DecodeFrom(SetByte(dst, i, FromHexChar(s[j]) * 16 + FromHexChar(s[j + 1])),
                    s, i + 1, j + 2)

\* hex.Decode(dst, s): dst afterwards and the error
Decode(dst, s) == DecodeFrom(dst, s, 0, 1)

\* Parse(raw): the UUID and the error it returns
Parse(r) ==
    IF Len(r) # 36
    THEN [id |-> ZeroUUID, err |-> "ErrInvalidUUID"]
    ELSE IF r[9] # "-" /\ r[14] # "-" /\ r[19] # "-" /\ r[24] # "-"
    THEN [id |-> ZeroUUID, err |-> "ErrInvalidUUID"]
    ELSE Decode(ZeroUUID,
                SubSeq(r, 1, 8) \o SubSeq(r, 10, 13) \o SubSeq(r, 15, 18)
                    \o SubSeq(r, 20, 23) \o SubSeq(r, 25, 36))

\* the UUIDs the caller formats: the draft's V6 example, a UUID with sixteen
\* different bytes, the Max UUID and the Nil UUID
UUIDSamples ==
    { <<\h1e, \hc9, \h41, \h4c, \h23, \h2a, \h6b, \h00,
        \hb3, \hc8, \h9e, \h6b, \hde, \hce, \hd8, \h46>>,
      <<\h01, \h23, \h45, \h67, \h89, \hab, \hcd, \hef,
        \hfe, \hdc, \hba, \h98, \h76, \h54, \h32, \h10>>,
      Fill(\hff), Fill(\h00) }

\* where the hyphens of the canonical form are (Go's 8, 13, 18, 23)
HyphenPositions == {9, 14, 19, 24}

\* the places of the string the caller may overwrite: the hyphens, the first
\* and the last digit
EditPositions == HyphenPositions \cup {1, 36}

\* what the caller may write there: a hyphen, a digit, a letter that is no
\* hexadecimal digit, an upper-case digit
EditChars == {"-", "0", "g", "F"}

\* the caller formats the UUID: raw := given.String()
Format ==
    /\ stage = "start"
    /\ raw' = String(given)
    /\ stage' = "formatted"
    /\ UNCHANGED <<given, edits, parsed, genVars, other, valueVars>>

\* the caller overwrites one character of the string
Overwrite ==
    /\ stage = "formatted"
    /\ Cardinality(edits) < MaxEdits
    /\ \E i \in EditPositions \ edits, c \in EditChars :
          /\ i <= Len(raw)
          /\ raw[i] # c
          /\ raw' = [raw EXCEPT ![i] = c]
          /\ edits' = edits \cup {i}
    /\ UNCHANGED <<given, stage, parsed, genVars, other, valueVars>>

\* the caller drops the last character of the string
Truncate ==
    /\ stage = "formatted"
    /\ Cardinality(edits) < MaxEdits
    /\ 0 \notin edits
    /\ raw' = SubSeq(raw, 1, Len(raw) - 1)
    /\ edits' = edits \cup {0}
    /\ UNCHANGED <<given, stage, parsed, genVars, other, valueVars>>

\* the caller appends a character to the string
Extend ==
    /\ stage = "formatted"
    /\ Cardinality(edits) < MaxEdits
    /\ 0 \notin edits
    /\ \E c \in EditChars : raw' = Append(raw, c)
    /\ edits' = edits \cup {0}
    /\ UNCHANGED <<given, stage, parsed, genVars, other, valueVars>>

\* the caller parses the string: parsed := Parse(raw)
ParseRaw ==
    /\ stage = "formatted"
    /\ parsed' = Parse(raw)
    /\ stage' = "parsed"
    /\ UNCHANGED <<given, raw, edits, genVars, other, valueVars>>

\* the caller holds one of the sample UUIDs; the generators are not used
InitCodec ==
    /\ given \in UUIDSamples
    /\ raw = <<>>
    /\ edits = {}
    /\ stage = "start"
    /\ parsed = [id |-> ZeroUUID, err |-> "none"]
    /\ InitOther
    /\ node = <<>>
    /\ cs = 0
    /\ prevTime = ZeroTime
    /\ mu = 0
    /\ pc = [t \in Threads |-> "idle"]
    /\ n = [t \in Threads |-> ZeroTime]
    /\ lcs = [t \in Threads |-> 0]
    /\ out = [t \in Threads |-> ZeroUUID]
    /\ ret = [t \in Threads |-> "none"]
    /\ ord = [t \in Threads |-> 0]
    /\ calls = 0
    /\ issued = <<>>
    /\ draws = 0
    /\ InitValueIdle

NextCodec ==
    \/ Format
    \/ Overwrite
    \/ Truncate
    \/ Extend
    \/ ParseRaw

SpecCodec == InitCodec /\ [][NextCodec]_vars

-----------------------------------------------------------------------------
(* The UUID value: IsNil and IsMax on a UUID the caller builds *)

nilUUID == Fill(\h00)
maxUUID == Fill(\hff)

\* IsNil that looks at the first byte only
IsNilFirstByte(u) == u[1] = nilUUID[1]

\* uuid == nilUUID: equality of [16]byte arrays, element by element
IsNil(u) == \A i \in 1..16 : u[i] = nilUUID[i]

\* uuid == maxUUID
IsMax(u) == \A i \in 1..16 : u[i] = maxUUID[i]

\* bytes the caller assigns
ByteSamples == {\h00, \h01, \hff}

\* the caller assigns one byte of its UUID: subject[i] = b
WriteByte ==
    /\ verdict = {}
    /\ writes < MaxWrites
    /\ \E i \in 0..15, b \in ByteSamples : subject' = SetByte(subject, i, b)
    /\ writes' = writes + 1
    /\ UNCHANGED <<verdict, genVars, other, codecVars>>

\* IsNil(subject)
CallIsNil ==
    /\ \A v \in verdict : v[1] # "IsNil"
    /\ verdict' = verdict \cup {<<"IsNil", IsNil(subject)>>}
    /\ UNCHANGED <<subject, writes, genVars, other, codecVars>>

\* IsMax(subject)
CallIsMax ==
    /\ \A v \in verdict : v[1] # "IsMax"
    /\ verdict' = verdict \cup {<<"IsMax", IsMax(subject)>>}
    /\ UNCHANGED <<subject, writes, genVars, other, codecVars>>

\* the caller starts from the Nil UUID or the Max UUID; the generators and
\* the codec are not used
InitValue ==
    /\ subject \in {nilUUID, maxUUID}
    /\ writes = 0
    /\ verdict = {}
    /\ InitOther
    /\ InitCodecIdle
    /\ node = <<>>
    /\ cs = 0
    /\ prevTime = ZeroTime
    /\ mu = 0
    /\ pc = [t \in Threads |-> "idle"]
    /\ n = [t \in Threads |-> ZeroTime]
    /\ lcs = [t \in Threads |-> 0]
    /\ out = [t \in Threads |-> ZeroUUID]
    /\ ret = [t \in Threads |-> "none"]
    /\ ord = [t \in Threads |-> 0]
    /\ calls = 0
    /\ issued = <<>>
    /\ draws = 0

NextValue ==
    \/ WriteByte
    \/ CallIsNil
    \/ CallIsMax

SpecValue == InitValue /\ [][NextValue]_vars

-----------------------------------------------------------------------------
(* Properties of the generators *)

\* the calls of V6Generator.Read that returned an identifier
Issued == DOMAIN issued

\* C1: with a clock that returns the same instant on every call, the
\* identifiers one V6Generator returns are strictly increasing, byte-wise, in
\* the order of the calls; no two are equal.
FixedClockStrictlyIncreasing ==
    (\A i \in Issued : issued[i].n = issued[1].n) =>
        \A i, j \in Issued :
            issued[i].ord < issued[j].ord => BytesLess(issued[i].id, issued[j].id)

\* C2: no two calls of Read on one V6Generator, in any interleaving, obtain
\* the same (timestamp ticks, sequence) pair.
NoSharedTickSequencePair ==
    \A i, j \in Issued :
        i # j => <<issued[i].t, issued[i].cs>> # <<issued[j].t, issued[j].cs>>

\* C3: every identifier V6Generator.Read, V7Generator.Read and
\* V8Generator.Read return without error has Version() 6, 7 and 8 and
\* Variant() 2, whatever the clock, the stored sequence and the entropy bytes.
VersionAndVariant ==
    /\ \A i \in Issued : Version(issued[i].id) = 6 /\ Variant(issued[i].id) = 2
    /\ \A t \in Threads : ret[t] = "nil" => Version(out[t]) = 6 /\ Variant(out[t]) = 2
    /\ other.err = "nil" => Version(other.id) = other.gen /\ Variant(other.id) = 2

\* C3: a V6 identifier was returned while the stored sequence had both of its
\* top bits set (0xc000 and above), where the variant bits have to be forced
VersionAndVariantWitness ==
    \E i \in Issued : issued[i].cs >= \hc000 /\ Version(issued[i].id) = 6

\* thread t is between g.mu.Lock() and g.mu.Unlock()
InCritical(t) == pc[t] \in {"node", "now", "seq", "unlock"}

\* C7: when the entropy source fails while Read initialises the node, the call
\* releases the lock (so that a later call can take it and initialise the
\* node) and then returns the error; neither step writes through id or
\* changes node (unset at the failure), sequence or last timestamp, and the
\* call returns without the lock.
NodeFailureLeavesNoTrace ==
    [][\A t \in Threads :
          /\ (pc[t] = "node" /\ pc'[t] \notin {"node", "now"}) =>
                /\ pc'[t] = "fail"
                /\ node = <<>>
                /\ mu = t /\ mu' = 0
                /\ \A u \in Threads : ~InCritical(u)'
                /\ ret' = ret
                /\ UNCHANGED <<out, node, cs, prevTime, issued>>
          /\ (pc[t] = "fail" /\ pc'[t] # "fail") =>
                /\ pc'[t] = "idle"
                /\ ret'[t] = "node"
                /\ mu # t /\ mu' = mu
                /\ UNCHANGED <<out, node, cs, prevTime, issued>>
          /\ pc[t] = "fail" => out'[t] = out[t] ]_vars

\* C7: a call failed on the entropy source and a later call returned an
\* identifier with the node initialised (the node was unset when the call failed)
NodeFailureWitness ==
    \E t \in Threads :
        /\ ret[t] = "node"
        /\ \E i \in Issued : Len(issued[i].node) = 6 /\ node = issued[i].node

\* C8: of two identifiers of a V6Generator, the one from the smaller tick count
\* sorts strictly first byte-wise, whatever the sequences are.
TickOrderIsByteOrder ==
    \A i, j \in Issued :
        Less64(issued[i].t, issued[j].t) => BytesLess(issued[i].id, issued[j].id)

\* C8: two identifiers where the one from the smaller tick count carries the
\* larger clock sequence bytes
TickOrderWitness ==
    \E i, j \in Issued :
        /\ Less64(issued[i].t, issued[j].t)
        /\ BytesLess(SubSeq(issued[j].id, 9, 10), SubSeq(issued[i].id, 9, 10))

\* digit j (1..32) of an identifier written as 32 hexadecimal digits
IdNibble(id, j) ==
    IF j % 2 = 1 THEN id[(j + 1) \div 2] \div 16 ELSE id[j \div 2] % 16

\* the draft's example of a UUIDv6 value: its time, its tick count
\* 0x1EC9414C232AB00, its sequence before the variant is stamped and its node
ExampleTime == [sec |-> 1645557742, nsec |-> 0, mono |-> -1]
ExampleTicks == <<0, 0, 11, 10, 2, 3, 2, 12, 4, 1, 4, 9, 12, 14, 1, 0>>
ExampleSeq == \h33c8
ExampleNode == <<\h9e, \h6b, \hde, \hce, \hd8, \h46>>
ExampleV6 ==
    <<"1", "e", "c", "9", "4", "1", "4", "c", "-", "2", "3", "2",
      "a", "-", "6", "b", "0", "0", "-", "b", "3", "c", "8", "-",
      "9", "e", "6", "b", "d", "e", "c", "e", "d", "8", "4", "6">>

\* C9: for tick count t, stored sequence s and node n, Read writes bits 59..28
\* of t into bytes 0-3, bits 27..12 into bytes 4-5, the version nibble 6 and
\* bits 11..0 into bytes 6-7, the variant bits 10 and the low 14 bits of s into
\* bytes 8-9 and n into bytes 10-15; the draft's example gives
\* 1ec9414c-232a-6b00-b3c8-9e6bdeced846.
LayoutV6 ==
    \A i \in Issued :
        LET e == issued[i]
        IN  /\ \A j \in 1..12 : IdNibble(e.id, j) = e.t[16 - j]
            /\ IdNibble(e.id, 13) = 6
            /\ \A j \in 14..16 : IdNibble(e.id, j) = e.t[17 - j]
            /\ e.id[9] = \h80 + ((e.cs \div 256) % 64)
            /\ e.id[10] = e.cs % 256
            /\ SubSeq(e.id, 11, 16) = e.node
            /\ (e.n = ExampleTime /\ e.cs = ExampleSeq /\ e.node = ExampleNode) =>
                   e.t = ExampleTicks /\ String(e.id) = ExampleV6

\* C9: Read returned the identifier of the draft's example
LayoutV6Witness ==
    \E i \in Issued :
        /\ issued[i].n = ExampleTime
        /\ issued[i].cs = ExampleSeq
        /\ issued[i].node = ExampleNode
        /\ String(issued[i].id) = ExampleV6

\* the draft's examples of a UUIDv7 value (Unix time 1645557742000 ms, which
\* is ExampleTime) and of a UUIDv8 value
ExampleV7Rand == <<\h0c, \hc3, \h18, \hc4, \hdc, \h0c, \h0c, \h07, \h39, \h8f>>
ExampleV7 ==
    <<"0", "1", "7", "f", "2", "2", "e", "2", "-", "7", "9", "b",
      "0", "-", "7", "c", "c", "3", "-", "9", "8", "c", "4", "-",
      "d", "c", "0", "c", "0", "c", "0", "7", "3", "9", "8", "f">>
ExampleV8Rand ==
    <<\h32, \h0c, \h3d, \h4d, \hcc, \h00, \h07, \h5b,
      \h0e, \hc9, \h32, \hd5, \hf6, \h91, \h81, \hc0>>
ExampleV8 ==
    <<"3", "2", "0", "c", "3", "d", "4", "d", "-", "c", "c", "0",
      "0", "-", "8", "7", "5", "b", "-", "8", "e", "c", "9", "-",
      "3", "2", "d", "5", "f", "6", "9", "1", "8", "1", "c", "0">>

\* the 48-bit Unix time in milliseconds of the draft's UUIDv7 example,
\* 0x017F22E279B0
ExampleMillis == <<0, 11, 9, 7, 2, 14, 2, 2, 15, 7, 1, 0, 0, 0, 0, 0>>

\* C10: V7Generator.Read returns the 48-bit big-endian Unix milliseconds in
\* bytes 0-5 followed by the 10 entropy bytes, V8Generator.Read the 16 entropy
\* bytes, with only the high nibble of byte 6 (version) and the top two bits of
\* byte 8 (variant) replaced; the draft's examples give
\* 017f22e2-79b0-7cc3-98c4-dc0c0c07398f and 320c3d4d-cc00-875b-8ec9-32d5f69181c0.
LayoutV7V8 ==
    /\ (other.gen = 7 /\ other.err = "nil") =>
          /\ \A j \in 1..12 : IdNibble(other.id, j) = UnixMilli(other.n)[13 - j]
          /\ \A k \in 7..16 :
                other.id[k] = IF k = 7 THEN \h70 + (other.r[1] % 16)
                              ELSE IF k = 9 THEN \h80 + (other.r[3] % 64)
                              ELSE other.r[k - 6]
          /\ (other.n = ExampleTime /\ other.r = ExampleV7Rand) =>
                 UnixMilli(other.n) = ExampleMillis /\ String(other.id) = ExampleV7
    /\ (other.gen = 8 /\ other.err = "nil") =>
          /\ \A k \in 1..16 :
                other.id[k] = IF k = 7 THEN \h80 + (other.r[7] % 16)
                              ELSE IF k = 9 THEN \h80 + (other.r[9] % 64)
                              ELSE other.r[k]
          /\ other.r = ExampleV8Rand => String(other.id) = ExampleV8

\* C10: V7Generator.Read returned the identifier of the draft's example
LayoutV7V8Witness ==
    /\ other.gen = 7 /\ other.err = "nil"
    /\ other.n = ExampleTime /\ other.r = ExampleV7Rand
    /\ String(other.id) = ExampleV7

-----------------------------------------------------------------------------
(* Properties of the text codec *)

\* C4: for every UUID id, Parse(id.String()) returns id and no error.
FormatParseRoundTrip ==
    (stage = "parsed" /\ edits = {}) => parsed = [id |-> given, err |-> "nil"]

\* C4: a UUID of sixteen different bytes was formatted and the string parsed
FormatParseWitness ==
    /\ stage = "parsed" /\ edits = {}
    /\ Cardinality({given[k] : k \in 1..16}) = 16
    /\ parsed.id = given

\* C5: Parse returns an error for every string whose length is not 36 and for
\* every string of 36 characters in which one of the positions 8, 13, 18, 23
\* holds no hyphen, even when the other three do.
ParseRejectsLengthAndHyphens ==
    (stage = "parsed" /\ (Len(raw) # 36 \/ \E p \in HyphenPositions : raw[p] # "-"))
        => parsed.err # "nil"

\* C6: for a string of 36 characters with its four hyphens and a character
\* that is no hexadecimal digit in a digit position, Parse returns
\* ErrInvalidUUID, the error it returns for a wrong length or wrong hyphens.
ParseNonHexIsErrInvalidUUID ==
    ( /\ stage = "parsed"
      /\ Len(raw) = 36
      /\ \A p \in HyphenPositions : raw[p] = "-"
      /\ \E p \in (1..36) \ HyphenPositions : FromHexChar(raw[p]) > \h0f )
        => parsed.err = "ErrInvalidUUID"


-----------------------------------------------------------------------------
(* Claims about the UUID value *)

\* C11: IsNil(u) returns true exactly when all 16 bytes of u are 0x00 and
\* IsMax(u) returns true exactly when all 16 bytes of u are 0xFF; so both
\* return false for every other UUID, one that differs from the all-zero or
\* the all-0xFF value in a single byte included.
NilAndMaxExact ==
    \A v \in verdict :
        /\ v[1] = "IsNil" => (v[2] <=> subject = <<0, 0, 0, 0, 0, 0, 0, 0, 0, 0, 0, 0, 0, 0, 0, 0>>)
        /\ v[1] = "IsMax" => (v[2] <=> subject = <<255, 255, 255, 255, 255, 255, 255, 255,
                                                   255, 255, 255, 255, 255, 255, 255, 255>>)

\* both functions have answered false for a UUID that is all zero but for one
\* byte after the first
NilAndMaxWitness ==
    /\ verdict = {<<"IsNil", FALSE>>, <<"IsMax", FALSE>>}
    /\ \E i \in 2..16 : /\ subject[i] # 0
                        /\ \A j \in (1..16) \ {i} : subject[j] = 0


-----------------------------------------------------------------------------
(* Claims about the sequence and the node of the V6Generator *)

\* C12: when a call of V6Generator.Read that is not the first of the
\* instance sees a tick count that is not greater than the tick count of the
\* call before it (the same, or the clock went back), the sequence it uses is
\* the sequence of the call before it plus one modulo 2^14; and g.cs is
\* always within 0..2^14-1.
SequenceIs14BitCounter ==
    /\ cs \in 0..16383
    /\ \A i, j \in Issued :
          ( /\ issued[j].ord = issued[i].ord + 1
            /\ ~Less64(issued[i].t, issued[j].t) )
              => issued[j].cs = (issued[i].cs + 1) % 16384

\* C13: Read draws the node from the entropy source only while the node is
\* unset, in the call that holds the lock and finds it unset; once the node
\* is set, no step changes it and no step reads the entropy source again,
\* and bytes 10-15 of every identifier the instance has returned are that
\* node, whatever the order and interleaving of the calls.
NodeDrawnOnce ==
    [][ /\ Len(node) # 0 => (node' = node /\ draws' = draws)
        /\ draws' # draws =>
              /\ draws' = draws + 1
              /\ Len(node) = 0
              /\ \E t \in Threads : mu = t /\ pc[t] = "node"
        /\ node' # node => (draws' = draws + 1 /\ Len(node') = 6)
        /\ \A i \in DOMAIN issued' : SubSeq(issued'[i].id, 11, 16) = node' ]_vars

\* C13: a first call failed on the entropy source, a second one drew the node
\* and a third one kept it: two identifiers were returned after two draws
NodeDrawnOnceWitness ==
    /\ draws = 2
    /\ Len(node) = 6
    /\ Len(issued) = 2
    /\ issued[1].ord = 2 /\ issued[2].ord = 3
    /\ SubSeq(issued[1].id, 11, 16) = SubSeq(issued[2].id, 11, 16)

=============================================================================
